---- MODULE Spec2Model ----
(***************************************************************************)
(* A model of the monorepo's test set-up (src/vitest.config.ts): the root  *)
(* configuration, the configuration of the sub-project './my-vue-app', and *)
(* the 'sum function' suite with its three test cases.                     *)
(*                                                                         *)
(* The values of the two configuration objects and the three test cases    *)
(* are transcribed from the source.  The function under test is imported   *)
(* from './sum', a file of the repository that is not among the sources:   *)
(* in the suite's runs the imported function is the variable sumImpl, any  *)
(* function from the suite's argument pairs to a bounded range of integers *)
(* (the arithmetic sum among them), so that both branches of the           *)
(* assertions are exercised.                                               *)
(* How the runner resolves coverage options declared by a sub-project is   *)
(* not code of the repository either: both resolutions (the root's options *)
(* alone; the sub-project's options laid over the root's) are admitted.    *)
(***************************************************************************)
EXTENDS Integers, Sequences, FiniteSets

\* The largest absolute value the imported sum may return in a run of the suite.
MaxResult == 3

Results == (0 - MaxResult)..MaxResult

(***************************************************************************)
(* The configuration files.                                                *)
(***************************************************************************)

\* defineConfig returns the object it is given.
DefineConfig(c) == c

\* A sub-project configuration that redeclares the coverage provider.
ProjectConfigRedeclaresProvider ==
    [ plugins |-> <<"vue">>,
      test |-> [ environment   |-> "jsdom",
                 globals       |-> TRUE,
                 includeSource |-> <<"src/**/*.{js,ts,vue}">>,
                 coverage      |-> [ provider         |-> "v8",
                                     reportsDirectory |-> "../test-results/ui" ] ] ]

\* The root configuration object.
RootConfig ==
    [ test |-> [ projects  |-> <<"./my-vue-app">>,
                 reporters |-> <<"default">>,
                 coverage  |-> [ provider         |-> "istanbul",
                                 reporter         |-> <<"text", "lcov">>,
                                 all              |-> TRUE,
                                 reportsDirectory |-> "./test-results" ] ] ]

\* The configuration object of the sub-project './my-vue-app'.
ProjectConfig ==
    [ plugins |-> <<"vue">>,
      test |-> [ environment   |-> "jsdom",
                 globals       |-> TRUE,
                 includeSource |-> <<"src/**/*.{js,ts,vue}">>,
                 coverage      |-> [ reportsDirectory |-> "../test-results/ui" ] ] ]

\* The ways the runner may resolve the coverage options of a sub-project.
Resolutions == {"root_only", "project_over_root"}

(***************************************************************************)
(* The 'sum function' suite.                                               *)
(***************************************************************************)

\* The three test cases, in the order describe() registers them.
Cases ==
    << [ name |-> "adds 1 + 2 to equal 3",    args |-> <<1, 2>>,   expected |-> 3 ],
       [ name |-> "adds -1 + -1 to equal -2", args |-> <<-1, -1>>, expected |-> -2 ],
       [ name |-> "adds 0 + 0 to equal 0",    args |-> <<0, 0>>,   expected |-> 0 ] >>

Tests == DOMAIN Cases

ArgPairs == { Cases[i].args : i \in Tests }

\* expect(actual).toBe(expected) on integers: the assertion holds exactly
\* when the two values are the same number.
ToBe(actual, expected) == actual = expected

VARIABLES
    phase,       \* "start", "root_loaded", "configured", "collected"
    rootCfg,     \* <<>> until the root configuration is read, then <<it>>
    projCfg,     \* <<>> until the sub-project's configuration is read, then <<it>>
    resolution,  \* how the runner resolves a sub-project's coverage options
    sumImpl,     \* the function imported from './sum', on the suite's argument pairs
    pc,          \* per test case: "unregistered", "registered", "called", "done"
    actual,      \* per test case: <<>>, then <<the value sum returned to it>>
    outcome      \* per test case: "pending", "pass" or "fail"

vars == <<phase, rootCfg, projCfg, resolution, sumImpl, pc, actual, outcome>>

suiteVars == <<pc, actual, outcome>>

TypeOK ==
    /\ phase \in {"start", "root_loaded", "configured", "collected"}
    /\ Len(rootCfg) <= 1
    /\ Len(projCfg) <= 1
    /\ resolution \in Resolutions
    /\ sumImpl \in [ArgPairs -> Results]
    /\ pc \in [Tests -> {"unregistered", "registered", "called", "done"}]
    /\ \A i \in Tests : Len(actual[i]) <= 1
    /\ outcome \in [Tests -> {"pending", "pass", "fail"}]

\* The coverage option `key` applied when the sub-project is tested: under
\* "project_over_root" an option the sub-project declares replaces the root's;
\* an option it does not declare, and every option under "root_only", is the
\* root's.
AppliedCoverage(key) ==
    IF resolution = "project_over_root" /\ key \in DOMAIN projCfg[1].test.coverage
    THEN projCfg[1].test.coverage[key]
    ELSE rootCfg[1].test.coverage[key]

(***************************************************************************)
(* A run of the suite.                                                     *)
(***************************************************************************)

Init ==
    /\ phase = "start"
    /\ rootCfg = <<>>
    /\ projCfg = <<>>
    /\ resolution \in Resolutions
    /\ sumImpl \in [ArgPairs -> Results]
    /\ pc = [i \in Tests |-> "unregistered"]
    /\ actual = [i \in Tests |-> <<>>]
    /\ outcome = [i \in Tests |-> "pending"]

\* The root configuration file is evaluated.
LoadRootConfig ==
    /\ phase = "start"
    /\ rootCfg' = <<DefineConfig(RootConfig)>>
    /\ phase' = "root_loaded"
    /\ UNCHANGED <<projCfg, resolution, sumImpl, suiteVars>>

\* The configuration file of a project the root configuration lists is evaluated.
LoadProjectConfig ==
    /\ phase = "root_loaded"
    /\ \E i \in DOMAIN rootCfg[1].test.projects :
           rootCfg[1].test.projects[i] = "./my-vue-app"
    /\ projCfg' = <<DefineConfig(ProjectConfig)>>
    /\ phase' = "configured"
    /\ UNCHANGED <<rootCfg, resolution, sumImpl, suiteVars>>

\* describe('sum function', ...) registers the three test cases.
Collect ==
    /\ phase = "configured"
    /\ pc' = [i \in Tests |-> "registered"]
    /\ phase' = "collected"
    /\ UNCHANGED <<rootCfg, projCfg, resolution, sumImpl, actual, outcome>>

\* The value sum returns is kept in one slot the three test cases share.
CallShared(i) ==
    /\ phase = "collected"
    /\ pc[i] = "registered"
    /\ actual' = [j \in Tests |-> <<sumImpl[Cases[i].args]>>]
    /\ pc' = [pc EXCEPT ![i] = "called"]
    /\ UNCHANGED <<phase, rootCfg, projCfg, resolution, sumImpl, outcome>>

\* Test case i calls sum on its arguments.
Call(i) ==
    /\ phase = "collected"
    /\ pc[i] = "registered"
    /\ actual' = [actual EXCEPT ![i] = <<sumImpl[Cases[i].args]>>]
    /\ pc' = [pc EXCEPT ![i] = "called"]
    /\ UNCHANGED <<phase, rootCfg, projCfg, resolution, sumImpl, outcome>>

\* The assertion never throws: every test case is reported as passed.
ExpectNeverFails(i) ==
    /\ pc[i] = "called"
    /\ outcome' = [outcome EXCEPT ![i] = "pass"]
    /\ pc' = [pc EXCEPT ![i] = "done"]
    /\ UNCHANGED <<phase, rootCfg, projCfg, resolution, sumImpl, actual>>

\* Test case i asserts expect(value).toBe(expected): the case fails when the
\* assertion throws and passes otherwise.
Expect(i) ==
    /\ pc[i] = "called"
    /\ outcome' = [outcome EXCEPT ![i] =
                       IF ToBe(actual[i][1], Cases[i].expected) THEN "pass" ELSE "fail"]
    /\ pc' = [pc EXCEPT ![i] = "done"]
    /\ UNCHANGED <<phase, rootCfg, projCfg, resolution, sumImpl, actual>>

Next ==
    \/ LoadRootConfig
    \/ LoadProjectConfig
    \/ Collect
    \/ \E i \in Tests : Call(i)
    \/ \E i \in Tests : Expect(i)

Spec == Init /\ [][Next]_vars

(***************************************************************************)
(* Properties.                                                             *)
(***************************************************************************)

\* C5: a test case that has run is reported as failed exactly when the value
\* sum returned to it differs from the value it expects, and as passed
\* exactly when the two are equal.
C5_FailedIffAssertionFails ==
    \A i \in Tests :
        pc[i] = "done" =>
            /\ outcome[i] = "fail" <=> actual[i][1] # Cases[i].expected
            /\ outcome[i] = "pass" <=> actual[i][1] = Cases[i].expected

\* One test case has failed on a wrong sum and another has passed.
C5_Witness ==
    \E i, j \in Tests :
        /\ pc[i] = "done" /\ outcome[i] = "fail"
        /\ actual[i][1] # Cases[i].expected
        /\ pc[j] = "done" /\ outcome[j] = "pass"
        /\ actual[j][1] = Cases[j].expected

\* C8: the sub-project's configuration declares no coverage provider, the
\* provider applied when the sub-project is tested is the root's, 'istanbul',
\* and the reports directory is the only coverage option the sub-project
\* declares: every other coverage option applied is the root's.
C8_ProviderFromRoot ==
    phase \in {"configured", "collected"} =>
        /\ "provider" \notin DOMAIN projCfg[1].test.coverage
        /\ AppliedCoverage("provider") = "istanbul"
        /\ AppliedCoverage("provider") = rootCfg[1].test.coverage.provider
        /\ DOMAIN projCfg[1].test.coverage = {"reportsDirectory"}
        /\ \A k \in DOMAIN rootCfg[1].test.coverage \ {"reportsDirectory"} :
               AppliedCoverage(k) = rootCfg[1].test.coverage[k]
        /\ resolution = "project_over_root" =>
               AppliedCoverage("reportsDirectory") = "../test-results/ui"

\* The sub-project's test cases are running, with its reports directory laid
\* over the root's and the provider still the root's.
C8_Witness ==
    /\ phase = "collected"
    /\ \E i \in Tests : pc[i] = "called"
    /\ resolution = "project_over_root"
    /\ AppliedCoverage("reportsDirectory") # rootCfg[1].test.coverage.reportsDirectory
    /\ AppliedCoverage("provider") = "istanbul"

\* The outcome of test case i as the imported sum and the case alone decide it.
Verdict(i) ==
    IF sumImpl[Cases[i].args] = Cases[i].expected THEN "pass" ELSE "fail"

\* C9: the test cases share no mutable state: whatever the order and the
\* interleaving of their steps, the outcome of a test case that has run is
\* the one the imported sum and that case alone decide, and the outcome of
\* a test case that has not run to its end is untouched.
C9_OutcomeIndependentOfOrder ==
    \A i \in Tests :
        outcome[i] = IF pc[i] = "done" THEN Verdict(i) ELSE "pending"

\* The third test case has run to its end, out of declaration order, while
\* the first is between its call and its assertion and the second has not
\* started; the first is going to fail.
C9_Witness ==
    /\ pc[3] = "done" /\ pc[1] = "called" /\ pc[2] = "registered"
    /\ outcome[3] = Verdict(3)
    /\ Verdict(1) = "fail"

====
